---- MODULE Spec2Model ----
(***************************************************************************)
(* Model of the sync-folder client (client/monitor.py, client/utils.py):   *)
(* the watchdog event handlers, the upload queue, the debounce timer, the  *)
(* debounced flush and the startup upload pass of __main__.                *)
(*                                                                         *)
(* Threads: the main thread, the observer thread (runs the on_* handlers   *)
(* one at a time), and one threading.Timer thread per debounced() call.    *)
(* A timer thread that has fired runs the flush in that thread; cancel()   *)
(* only stops a timer that has not fired yet.                              *)
(***************************************************************************)
EXTENDS Integers, Sequences, FiniteSets, TLC

(* ---------------------------------------------------------------- bounds *)

\* The paths under the watched root.
Paths == {"x", "y"}

\* BATCH_MAX_SIZE_IN_BYTES, scaled: sizes are counted in units of 10 MB.
BATCH_MAX_SIZE_IN_BYTES == 3

\* debounce_ms, in clock ticks.
DebounceInterval == 2

\* Timer threads that may run a flush at the same time.
MaxFlushes == 2

\* Timer objects alive at the same time.
MaxTimers == 2

\* Files in the lists given to the batcher on its own.
MaxFiles == 3

(* ----------------------------------------------------------- file system *)

NoFile == [kind |-> "none", size |-> 0]
Directory == [kind |-> "dir", size |-> 1]
RegularFile(n) == [kind |-> "file", size |-> n]

\* File sizes: two files of size 1 and 2 fit in one batch, two of size 2 do
\* not, and a file of size BATCH_MAX_SIZE_IN_BYTES + 1 is too large.
FileSizes == {1, BATCH_MAX_SIZE_IN_BYTES - 1, BATCH_MAX_SIZE_IN_BYTES + 1}

FileStates == {NoFile, Directory} \cup {RegularFile(n) : n \in FileSizes}

(* ------------------------------------------------------ sequence helpers *)

Range(s) == {s[i] : i \in 1..Len(s)}

Contains(s, e) == \E i \in 1..Len(s) : s[i] = e

NoDuplicates(s) == \A i, j \in 1..Len(s) : s[i] = s[j] => i = j

IndexOf(s, e) == CHOOSE i \in 1..Len(s) : s[i] = e /\ \A j \in 1..(i - 1) : s[j] # e

\* A mutant of RemoveFirst: the queue is cleared.
RemoveEverything(s, e) == <<>>

\* deque.remove(e): removes the first occurrence of e.
RemoveFirst(s, e) ==
    LET k == IndexOf(s, e)
    IN  SubSeq(s, 1, k - 1) \o SubSeq(s, k + 1, Len(s))

RECURSIVE Flatten(_)
Flatten(ss) == IF ss = <<>> THEN <<>> ELSE Head(ss) \o Flatten(Tail(ss))

RECURSIVE SumSizes(_, _)
SumSizes(s, f) == IF s = <<>> THEN 0 ELSE f[Head(s)].size + SumSizes(Tail(s), f)

\* The orderings of a set of paths (a directory listing has no fixed order).
Orderings(S) == {s \in [1..Cardinality(S) -> S] : Range(s) = S}

(* ------------------------------------------------- monitor.py functions *)

\* Path(filepath).stat() raises FileNotFoundError for a path that is gone.
StatRaises(filepaths, f) == \E p \in Range(filepaths) : f[p].kind = "none"

\* monitor.py:25, the test that rejects one file.
TooLarge(filepath_size, max_size_in_bytes) == filepath_size > max_size_in_bytes

\* A mutant of filter_out_max_size: the accepted paths come out last first.
filter_out_max_size_reversed(filepaths, f) ==
    LET kept == SelectSeq(filepaths,
                          LAMBDA p : ~TooLarge(f[p].size, BATCH_MAX_SIZE_IN_BYTES))
    IN  [n \in 1..Len(kept) |-> kept[Len(kept) + 1 - n]]

\* filter_out_max_size (monitor.py:19-29), for a list whose stat() calls succeed.
RECURSIVE filter_out_max_size(_, _)
filter_out_max_size(filepaths, f) ==
    IF filepaths = <<>> THEN <<>>
    ELSE IF TooLarge(f[Head(filepaths)].size, BATCH_MAX_SIZE_IN_BYTES)
         THEN filter_out_max_size(Tail(filepaths), f)
         ELSE <<Head(filepaths)>> \o filter_out_max_size(Tail(filepaths), f)

\* A mutant of StartsNewChunk: the running sum is left out of the test.
StartsNewChunkIgnoringSum(sum_size, filepath_size, max_sum_size) ==
    filepath_size > max_sum_size

\* monitor.py:40, the test that closes the current chunk.
StartsNewChunk(sum_size, filepath_size, max_sum_size) ==
    sum_size + filepath_size > max_sum_size

\* The loop of group_by_chunks_of_max_size (monitor.py:38-45).
RECURSIVE GroupLoop(_, _, _, _)
GroupLoop(filepaths, f, files, sum_size) ==
    IF filepaths = <<>> THEN files
    ELSE LET filepath == Head(filepaths)
             filepath_size == f[filepath].size
         IN  IF StartsNewChunk(sum_size, filepath_size, BATCH_MAX_SIZE_IN_BYTES)
             THEN GroupLoop(Tail(filepaths), f, Append(files, <<filepath>>),
                            filepath_size)
             ELSE GroupLoop(Tail(filepaths), f,
                            [files EXCEPT ![Len(files)] = Append(@, filepath)],
                            sum_size + filepath_size)

\* group_by_chunks_of_max_size (monitor.py:32-46): files starts as [[]].
group_by_chunks_of_max_size(filepaths, f) == GroupLoop(filepaths, f, << <<>> >>, 0)

\* open(filepath, "rb") raises for a missing path and for a directory.
OpenRaises(filepaths, f) == \E p \in Range(filepaths) : f[p].kind # "file"

\* upload_files (monitor.py:49-66): the outcome of one call. server_ok is
\* whether the POST returns a 2xx response in time.
upload_files(filepaths, f, server_ok) ==
    IF OpenRaises(filepaths, f) THEN "open_error"
    ELSE IF server_ok THEN "ok" ELSE "transfer_error"

(* ------------------------------------------------------------------ state *)

VARIABLES
    args,           \* command line: directory exists, --init-upload
    main,           \* the main thread: pc and the locals of secure_upload_files
    fs,             \* the watched directory: path -> file state
    upload_queue,   \* UploadFileEventHandler.upload_queue
    timers,         \* remaining ticks of the live Timer threads, oldest first
    t,              \* debounced.t: "unset", "live" (the last of timers), "finished"
    flushes,        \* the timer threads running debounced_upload_from_queue, oldest first
    since,          \* ticks since the last debounced() call (capped)
    chain           \* the debounced() calls less than the interval apart, and their fires

vars == <<args, main, fs, upload_queue, timers, t, flushes, since, chain>>

\* A mutant of FlushThread: the flush only takes the path queued last.
FlushThreadOfLastPath(queue) ==
    LET last == IF queue = <<>> THEN <<>> ELSE <<queue[Len(queue)]>>
    IN  [pc |-> "filter", snapshot |-> last, filepaths |-> last, chunks |-> <<>>,
         i |-> 0, j |-> 0, quiet |-> TRUE, changed |-> FALSE]

\* The locals of one run of debounced_upload_from_queue. snapshot keeps what
\* list(self.upload_queue) returned; quiet says that no event was handled since;
\* changed says that an event for a queued file of the chunk under removal was
\* handled after the chunk was sent.
FlushThread(queue) ==
    [pc |-> "filter", snapshot |-> queue, filepaths |-> queue, chunks |-> <<>>,
     i |-> 0, j |-> 0, quiet |-> TRUE, changed |-> FALSE]

MainThread(pc) == [pc |-> pc, filepaths |-> <<>>, chunks |-> <<>>, i |-> 0]

Running == 1..Len(flushes)

\* Non-daemon threads: a Timer that waits, or one that runs the flush.
TimerThreadsAlive == timers # <<>> \/ flushes # <<>>

\* The observer thread (a daemon) dispatches events from observer.start() on,
\* for as long as the process lives: after an uncaught exception in the main
\* thread the interpreter exits when the last non-daemon thread has ended.
Watching ==
    \/ main.pc \in {"started", "filter", "group", "upload", "loop"}
    \/ main.pc = "crashed" /\ TimerThreadsAlive

Init ==
    /\ args \in [directory_exists : BOOLEAN, init_upload : BOOLEAN]
    /\ main = MainThread("boot")
    /\ fs \in [Paths -> FileStates]
    /\ args.directory_exists \/ fs = [p \in Paths |-> NoFile]
    /\ upload_queue = <<>>
    /\ timers = <<>>
    /\ t = "unset"
    /\ flushes = <<>>
    /\ since = DebounceInterval + 1
    /\ chain = [calls |-> 0, fired |-> 0, fired_at |-> 0]

(* ------------------------------------------------------------ debounce *)

Min(a, b) == IF a < b THEN a ELSE b

\* A mutant of Cancel: the previous timer is left running.
CancelNothing(ts, handle) == ts

\* debounced.t.cancel() (utils.py:23-26): stops the timer debounced.t names if it
\* has not fired yet; AttributeError (no timer yet) is swallowed.
Cancel(ts, handle) == IF handle = "live" THEN SubSeq(ts, 1, Len(ts) - 1) ELSE ts

\* debounced(*args) (utils.py:19-29): cancel, then start a new Timer.
debounced ==
    /\ timers' = Append(Cancel(timers, t), DebounceInterval)
    /\ Len(timers') <= MaxTimers
    /\ t' = "live"
    /\ since' = 0
    /\ chain' = IF since < DebounceInterval /\ chain.calls > 0
                THEN [chain EXCEPT !.calls = Min(@ + 1, 2)]
                ELSE [calls |-> 1, fired |-> 0, fired_at |-> 0]

\* One clock tick. A timer whose interval has elapsed fires before time moves on.
Tick ==
    /\ main.pc \notin {"boot", "exit"}
    /\ \A k \in 1..Len(timers) : timers[k] > 0
    /\ timers' = [k \in 1..Len(timers) |-> timers[k] - 1]
    /\ since' = Min(since + 1, DebounceInterval + 1)
    /\ UNCHANGED <<args, main, fs, upload_queue, t, flushes, chain>>

(* ------------------------------------------------------- event handlers *)

\* A mutant of AlreadyQueued: the membership test is dropped.
NeverQueued(queue, path) == FALSE

\* monitor.py:136, "path in self.upload_queue".
AlreadyQueued(queue, path) == Contains(queue, path)

\* The loop body of UploadFileEventHandler.upload_files (monitor.py:128-141)
\* for one path: the queue after it. The handler reads the file system at one
\* instant; event paths are strings, so str(path) is the path itself.
Enqueue(queue, path, f) ==
    IF f[path].kind = "none" THEN queue
    ELSE IF f[path].kind = "dir" THEN queue
    ELSE IF AlreadyQueued(queue, path) THEN queue
    ELSE IF TooLarge(f[path].size, BATCH_MAX_SIZE_IN_BYTES) THEN queue
    ELSE Append(queue, path)

\* Thread k has sent path and has yet to remove it from the queue.
SentNotRemoved(k, path) ==
    /\ flushes[k].pc = "remove"
    /\ \E n \in flushes[k].j..Len(flushes[k].filepaths) : flushes[k].filepaths[n] = path

\* Every running flush has now seen an event arrive; an event for a queued
\* file comes after the read of every flush that has sent it.
NoteEvent(path) ==
    [k \in Running |->
        [flushes[k] EXCEPT
            !.quiet = FALSE,
            !.changed = IF /\ SentNotRemoved(k, path)
                           /\ fs[path].kind = "file"
                           /\ AlreadyQueued(upload_queue, path)
                        THEN TRUE ELSE @]]

\* The body shared by on_moved, on_created, on_deleted and on_modified
\* (monitor.py:83-109): a directory event returns at once, any other event
\* goes through upload_files, which ends by calling the debounced flush.
\* The event is dispatched while a further timer thread can still run.
HandleEvent(path, is_directory) ==
    /\ Watching
    /\ Len(flushes) < MaxFlushes
    /\ IF is_directory
       THEN UNCHANGED <<upload_queue, timers, t, since, chain, flushes>>
       ELSE /\ upload_queue' = Enqueue(upload_queue, path, fs)
            /\ debounced
            /\ flushes' = NoteEvent(path)
    /\ UNCHANGED <<args, main, fs>>

on_moved(dest_path, is_directory) == HandleEvent(dest_path, is_directory)

on_created(src_path, is_directory) == HandleEvent(src_path, is_directory)

on_deleted(src_path, is_directory) == HandleEvent(src_path, is_directory)

on_modified(src_path, is_directory) == HandleEvent(src_path, is_directory)

Events ==
    \/ \E p \in Paths, d \in BOOLEAN : on_moved(p, d)
    \/ \E p \in Paths, d \in BOOLEAN : on_created(p, d)
    \/ \E p \in Paths, d \in BOOLEAN : on_deleted(p, d)
    \/ \E p \in Paths, d \in BOOLEAN : on_modified(p, d)

\* The file system changes under the program: a file or directory is created,
\* rewritten with another size, deleted, or replaced.
FsChange(path, state) ==
    /\ args.directory_exists
    /\ fs[path] # state
    /\ fs' = [fs EXCEPT ![path] = state]
    /\ UNCHANGED <<args, main, upload_queue, timers, t, flushes, since, chain>>

(* ----------------------------------------- debounced_upload_from_queue *)

RemoveAt(ts, k) == SubSeq(ts, 1, k - 1) \o SubSeq(ts, k + 1, Len(ts))

\* Timer.run, then call_it (utils.py:20-21, 28-29): the interval of timer n has
\* elapsed and it was not cancelled, so its thread calls the flush, which starts
\* with filepaths = list(self.upload_queue) (monitor.py:113).
TimerFires(n) ==
    /\ n \in 1..Len(timers)
    /\ timers[n] = 0
    /\ Len(flushes) < MaxFlushes
    /\ timers' = RemoveAt(timers, n)
    /\ t' = IF n = Len(timers) /\ t = "live" THEN "finished" ELSE t
    /\ flushes' = Append(flushes, FlushThread(upload_queue))
    /\ chain' = [chain EXCEPT !.fired = Min(@ + 1, 2), !.fired_at = since]
    /\ UNCHANGED <<args, main, fs, upload_queue, since>>

\* The flush of thread k ends: by returning, by the except clause of
\* monitor.py:123-124, or by an exception raised before the try statement;
\* then the timer thread ends.
Ended(k) == RemoveAt(flushes, k)

\* monitor.py:115, filepaths = filter_out_max_size(filepaths). The call is
\* outside the try statement: an exception of stat() ends the thread.
FlushFilter(k) ==
    /\ k \in Running
    /\ flushes[k].pc = "filter"
    /\ LET f == flushes[k]
       IN  flushes' =
              IF StatRaises(f.filepaths, fs)
              THEN Ended(k)
              ELSE [flushes EXCEPT ![k] =
                      [f EXCEPT !.pc = "group",
                                !.filepaths = filter_out_max_size(f.filepaths, fs)]]
    /\ UNCHANGED <<args, main, fs, upload_queue, timers, t, since, chain>>

\* monitor.py:116, chunks_of_filepaths = group_by_chunks_of_max_size(filepaths),
\* also outside the try statement.
FlushGroup(k) ==
    /\ k \in Running
    /\ flushes[k].pc = "group"
    /\ LET f == flushes[k]
       IN  flushes' =
              IF StatRaises(f.filepaths, fs)
              THEN Ended(k)
              ELSE [flushes EXCEPT ![k] =
                      [f EXCEPT !.pc = "upload", !.i = 1,
                                !.chunks = group_by_chunks_of_max_size(f.filepaths, fs)]]
    /\ UNCHANGED <<args, main, fs, upload_queue, timers, t, since, chain>>

\* monitor.py:119-120, one turn of "for filepaths in chunks_of_filepaths":
\* the loop variable rebinds filepaths, upload_files sends the chunk. An
\* exception leaves the loop for the except clause; after the last chunk the
\* removal loop of monitor.py:121 starts, over the last value of filepaths.
FlushUpload(k, server_ok) ==
    /\ k \in Running
    /\ flushes[k].pc = "upload"
    /\ LET f == flushes[k]
           chunk == f.chunks[f.i]
           outcome == upload_files(chunk, fs, server_ok)
           sent == [f EXCEPT !.filepaths = chunk]
       IN  flushes' =
              IF outcome # "ok" THEN Ended(k)
              ELSE IF f.i < Len(f.chunks)
                   THEN [flushes EXCEPT ![k] = [sent EXCEPT !.i = f.i + 1]]
              ELSE IF chunk = <<>> THEN Ended(k)
              ELSE [flushes EXCEPT ![k] = [sent EXCEPT !.pc = "remove", !.j = 1]]
    /\ UNCHANGED <<args, main, fs, upload_queue, timers, t, since, chain>>

\* monitor.py:121-122, one turn of "for filepath in filepaths:
\* self.upload_queue.remove(filepath)". deque.remove raises ValueError for a
\* path that is not in the queue, which the except clause catches.
FlushRemove(k) ==
    /\ k \in Running
    /\ flushes[k].pc = "remove"
    /\ LET f == flushes[k]
           filepath == f.filepaths[f.j]
       IN  IF Contains(upload_queue, filepath)
           THEN /\ upload_queue' = RemoveFirst(upload_queue, filepath)
                /\ flushes' = IF f.j < Len(f.filepaths)
                              THEN [flushes EXCEPT ![k] = [f EXCEPT !.j = f.j + 1]]
                              ELSE Ended(k)
           ELSE /\ upload_queue' = upload_queue
                /\ flushes' = Ended(k)
    /\ UNCHANGED <<args, main, fs, timers, t, since, chain>>

(* ------------------------------------------------------------- __main__ *)

\* monitor.py:183-193: exit(1) if the directory does not exist, else start
\* the observer.
MainBoot ==
    /\ main.pc = "boot"
    /\ main' = MainThread(IF args.directory_exists THEN "started" ELSE "exit")
    /\ UNCHANGED <<args, fs, upload_queue, timers, t, flushes, since, chain>>

\* monitor.py:195-196: with --init-upload, list the directory (files and
\* directories, in the order the file system gives) and enter
\* secure_upload_files; without it, go to the sleep loop.
MainListDirectory ==
    /\ main.pc = "started"
    /\ IF args.init_upload
       THEN \E listing \in Orderings({p \in Paths : fs[p].kind # "none"}) :
               main' = [MainThread("filter") EXCEPT !.filepaths = listing]
       ELSE main' = MainThread("loop")
    /\ UNCHANGED <<args, fs, upload_queue, timers, t, flushes, since, chain>>

\* monitor.py:70.
MainFilter ==
    /\ main.pc = "filter"
    /\ main' = IF StatRaises(main.filepaths, fs)
               THEN MainThread("crashed")
               ELSE [main EXCEPT !.pc = "group",
                                 !.filepaths = filter_out_max_size(@, fs)]
    /\ UNCHANGED <<args, fs, upload_queue, timers, t, flushes, since, chain>>

\* monitor.py:71.
MainGroup ==
    /\ main.pc = "group"
    /\ main' = IF StatRaises(main.filepaths, fs)
               THEN MainThread("crashed")
               ELSE [main EXCEPT !.pc = "upload", !.i = 1,
                                 !.chunks = group_by_chunks_of_max_size(main.filepaths, fs)]
    /\ UNCHANGED <<args, fs, upload_queue, timers, t, flushes, since, chain>>

\* monitor.py:72-73, one turn of the loop. upload_files re-raises what failed
\* and nothing catches it: the main thread ends. After the last chunk the
\* main thread sleeps in the loop of monitor.py:198-200.
MainUpload(server_ok) ==
    /\ main.pc = "upload"
    /\ LET chunk == main.chunks[main.i]
           outcome == upload_files(chunk, fs, server_ok)
       IN  main' = IF outcome # "ok" THEN MainThread("crashed")
                   ELSE IF main.i < Len(main.chunks)
                        THEN [main EXCEPT !.filepaths = chunk, !.i = main.i + 1]
                   ELSE MainThread("loop")
    /\ UNCHANGED <<args, fs, upload_queue, timers, t, flushes, since, chain>>

(* -------------------------------------------------------- specification *)

\* The environment: the file system changes, and the observer delivers events.
Environment ==
    \/ \E p \in Paths, st \in FileStates : FsChange(p, st)
    \/ Events

\* The timer threads: the clock, a timer firing, the steps of a flush.
TimerThreads ==
    \/ Tick
    \/ \E n \in 1..MaxTimers : TimerFires(n)
    \/ \E k \in 1..MaxFlushes : FlushFilter(k)
    \/ \E k \in 1..MaxFlushes : FlushGroup(k)
    \/ \E k \in 1..MaxFlushes, server_ok \in BOOLEAN : FlushUpload(k, server_ok)
    \/ \E k \in 1..MaxFlushes : FlushRemove(k)

\* The main thread up to the sleep loop, and the startup upload pass.
MainStart == MainBoot \/ MainListDirectory

StartupPass ==
    \/ MainFilter
    \/ MainGroup
    \/ \E server_ok \in BOOLEAN : MainUpload(server_ok)

\* The whole client: any command line, any directory content.
Next == MainStart \/ StartupPass \/ Environment \/ TimerThreads

Spec == Init /\ [][Next]_vars

\* The runs of Spec without --init-upload, in an existing directory: the main
\* thread goes straight to its sleep loop.
InitWatch == Init /\ args = [directory_exists |-> TRUE, init_upload |-> FALSE]

NextWatch == MainStart \/ Environment \/ TimerThreads

SpecWatch == InitWatch /\ [][NextWatch]_vars

\* The runs of SpecWatch in which the directory keeps the content it has at
\* the start (events still arrive: a file rewritten with the same size).
NextStatic == MainStart \/ Events \/ TimerThreads

SpecStatic == InitWatch /\ [][NextStatic]_vars

\* The runs of Spec with --init-upload in which the directory keeps its content.
InitStartup == Init /\ args.init_upload

NextStartup == MainStart \/ StartupPass \/ Events \/ TimerThreads

SpecStartup == InitStartup /\ [][NextStartup]_vars

\* group_by_chunks_of_max_size on its own: the main thread stands at
\* monitor.py:71 with any list of distinct paths, over any directory content.
DistinctSeqs(S) == UNION {Orderings(T) : T \in SUBSET S}

InitBatcher ==
    /\ args = [directory_exists |-> TRUE, init_upload |-> TRUE]
    /\ fs \in [1..MaxFiles -> FileStates]
    /\ \E filepaths \in DistinctSeqs(1..MaxFiles) :
          main = [MainThread("group") EXCEPT !.filepaths = filepaths]
    /\ upload_queue = <<>>
    /\ timers = <<>>
    /\ t = "unset"
    /\ flushes = <<>>
    /\ since = DebounceInterval + 1
    /\ chain = [calls |-> 0, fired |-> 0, fired_at |-> 0]

SpecBatcher == InitBatcher /\ [][MainGroup]_vars

\* debounced_upload_from_queue on its own: one timer is about to fire over any
\* queue of distinct paths and any directory content (files may have grown,
\* gone or become directories since they were queued); no event arrives.
InitFlush ==
    /\ args = [directory_exists |-> TRUE, init_upload |-> FALSE]
    /\ main = MainThread("loop")
    /\ fs \in [1..MaxFiles -> FileStates]
    /\ upload_queue \in DistinctSeqs(1..MaxFiles)
    /\ timers = <<0>>
    /\ t = "live"
    /\ flushes = <<>>
    /\ since = DebounceInterval
    /\ chain = [calls |-> 1, fired |-> 0, fired_at |-> 0]

NextFlush ==
    \/ TimerFires(1)
    \/ FlushFilter(1)
    \/ FlushGroup(1)
    \/ \E server_ok \in BOOLEAN : FlushUpload(1, server_ok)
    \/ FlushRemove(1)

SpecFlush == InitFlush /\ [][NextFlush]_vars

(* ---------------------------------------------------------------- claims *)

\* The chunk thread k is sending, and whether its next send can only fail.
Chunk(k) == flushes[k].chunks[flushes[k].i]

Sends(k) == k \in Running /\ flushes[k].pc = "upload"

SendFails(k) == Sends(k) /\ FlushUpload(k, FALSE)

SendSucceeds(k) == Sends(k) /\ FlushUpload(k, TRUE) /\ ~OpenRaises(Chunk(k), fs)

\* Thread k ends its flush in this step after every send of it succeeded.
EndsAfterAllSent(k) ==
    /\ k \in Running
    /\ Len(flushes') < Len(flushes)
    /\ \/ FlushRemove(k)
       \/ SendSucceeds(k) /\ flushes[k].i = Len(flushes[k].chunks)

\* C1. Partial failure isolation: when a flush has two batches B1 and B2, the
\* send of B1 succeeded, no event arrived during the flush and the send of B2
\* fails, the queue holds exactly the paths of B2 after the flush.
C1_PartialFailureIsolation ==
    [][\A k \in 1..MaxFlushes :
          (/\ SendFails(k)
           /\ flushes[k].quiet
           /\ Len(flushes[k].chunks) = 2
           /\ flushes[k].i = 2)
          => Range(upload_queue') = Range(flushes[k].chunks[2])]_vars

\* C2. Removal on success for every batch: when a flush ends after every one
\* of its batches was sent successfully and no event arrived during the flush,
\* no path of any of its batches is in the queue.
C2_RemovalOnSuccess ==
    [][\A k \in 1..MaxFlushes :
          (EndsAfterAllSent(k) /\ flushes[k].quiet)
          => Range(Flatten(flushes[k].chunks)) \cap Range(upload_queue') = {}]_vars

\* C3. Dedup invariant: the queue never holds a path twice, and an event for a
\* path that is already queued leaves the queue as it is (same length, same
\* positions): no step that changes the queue is the handling of an event for
\* a path that was queued.
C3_Dedup ==
    /\ [](NoDuplicates(upload_queue))
    /\ [][\A p \in Paths :
            (upload_queue' # upload_queue /\ Contains(upload_queue, p))
            => \A d \in BOOLEAN : ~HandleEvent(p, d)]_vars

\* Both paths were queued when a flush took its snapshot, both are regular
\* files that fit, an event has been handled since, and the queue is unchanged:
\* the event was for a queued path.
C3_Witness ==
    /\ \A p \in Paths : fs[p].kind = "file" /\ ~TooLarge(fs[p].size, BATCH_MAX_SIZE_IN_BYTES)
    /\ Len(upload_queue) = Cardinality(Paths)
    /\ \E k \in Running : ~flushes[k].quiet /\ flushes[k].snapshot = upload_queue

\* C4. Debounce coalescing: the debounced() calls of one chain (each less than
\* the interval after the one before) lead to exactly one call of the flush,
\* made one interval after the last of them: no flush while the timer waits,
\* one flush once it is over, fired when DebounceInterval ticks had passed.
C4_DebounceCoalescing ==
    /\ chain.fired <= 1
    /\ chain.fired = 1 => chain.fired_at = DebounceInterval
    /\ (chain.calls >= 1 /\ timers = <<>>) => chain.fired = 1
    /\ (chain.calls >= 1 /\ since > DebounceInterval) => chain.fired = 1
    /\ timers # <<>> => chain.fired = 0

\* A chain of at least two calls has fired its one flush.
C4_Witness == chain.calls = 2 /\ chain.fired = 1 /\ timers = <<>>

\* C5. No double upload by overlapping flushes: a flush sends no path that is
\* in the snapshot of another flush that is still running.
C5_NoOverlappingSend ==
    [][\A k \in 1..MaxFlushes :
          (SendSucceeds(k) \/ (SendFails(k) /\ ~OpenRaises(Chunk(k), fs)))
          => \A o \in Running \ {k} :
                Range(Chunk(k)) \cap Range(flushes[o].snapshot) = {}]_vars

\* C6. Retention until success: a path leaves the queue only in the removal
\* loop of a flush that sent it successfully, and the paths of a batch whose
\* send failed are in the queue when that flush ends.
C6_RetentionUntilSuccess ==
    /\ [][\A p \in Paths :
            (Contains(upload_queue, p) /\ ~Contains(upload_queue', p))
            => \E k \in Running :
                  /\ FlushRemove(k)
                  /\ flushes[k].i = Len(flushes[k].chunks)
                  /\ Contains(Chunk(k), p)]_vars
    /\ [][\A k \in 1..MaxFlushes :
            SendFails(k) => Range(Chunk(k)) \subseteq Range(upload_queue')]_vars

\* C7. Batch size invariant: every chunk the batcher returns has a sum of
\* sizes of at most BATCH_MAX_SIZE_IN_BYTES, or is one path that is larger.
C7_BatchSizeInvariant ==
    main.pc = "upload" =>
       \A c \in 1..Len(main.chunks) :
          \/ SumSizes(main.chunks[c], fs) <= BATCH_MAX_SIZE_IN_BYTES
          \/ /\ Len(main.chunks[c]) = 1
             /\ fs[main.chunks[c][1]].size > BATCH_MAX_SIZE_IN_BYTES

\* The batcher returned a chunk of two paths and a chunk of one oversized path.
C7_Witness ==
    /\ main.pc = "upload"
    /\ \E c \in 1..Len(main.chunks) : Len(main.chunks[c]) = 2
    /\ \E c \in 1..Len(main.chunks) :
          /\ Len(main.chunks[c]) = 1
          /\ fs[main.chunks[c][1]].size > BATCH_MAX_SIZE_IN_BYTES

\* C8. Oversized paths are dropped at flush: a queued path that the size
\* filter of a flush rejects is out of the queue after the filter step.
C8_OversizedDropped ==
    [][\A k \in 1..MaxFlushes :
          (FlushFilter(k) /\ ~StatRaises(flushes[k].filepaths, fs))
          => \A p \in Range(flushes[k].filepaths) :
                TooLarge(fs[p].size, BATCH_MAX_SIZE_IN_BYTES)
                => ~Contains(upload_queue', p)]_vars

\* C9. File deleted between enqueue and flush: when a path of the snapshot is
\* gone at the filter step, the flush removes it from the queue and goes on
\* with the paths that are left.
C9_DeletedFileDropped ==
    [][\A k \in 1..MaxFlushes :
          (FlushFilter(k) /\ StatRaises(flushes[k].filepaths, fs))
          => /\ Len(flushes') = Len(flushes)
             /\ flushes'[k].pc = "group"
             /\ \A p \in Range(flushes[k].filepaths) :
                   fs[p].kind = "none" => ~Contains(upload_queue', p)]_vars

\* C10. Errors are never fatal to watching: once the observer is started in
\* an existing directory, events keep being dispatched.
C10_ErrorsNeverFatal ==
    (args.directory_exists /\ main.pc # "boot") => Watching

\* C11. Startup upload precedes watching: while the startup pass of
\* --init-upload is running (filtering, grouping or sending), no event has
\* been taken in and no debounced flush is scheduled or running.
C11_StartupPrecedesWatching ==
    main.pc \in {"filter", "group", "upload"} =>
       /\ chain.calls = 0
       /\ upload_queue = <<>>
       /\ timers = <<>>
       /\ flushes = <<>>

\* C12. Idempotent removal: when the removal loop of a flush comes to a path
\* that is no longer in the queue, the flush goes on: every other path of the
\* chunk it is removing is out of the queue when the flush has ended.
C12_IdempotentRemoval ==
    [][\A k \in 1..MaxFlushes :
          (/\ FlushRemove(k)
           /\ ~Contains(upload_queue, flushes[k].filepaths[flushes[k].j])
           /\ Len(flushes') < Len(flushes))
          => Range(flushes[k].filepaths) \cap Range(upload_queue') = {}]_vars

\* C13. A failed batch does not abort the flush: when the send of a batch that
\* is not the last one of its flush fails, the flush is still running after
\* the step and the next batch is the one it sends.
C13_FailedBatchDoesNotAbort ==
    [][\A k \in 1..MaxFlushes :
          (SendFails(k) /\ flushes[k].i < Len(flushes[k].chunks))
          => /\ Len(flushes') = Len(flushes)
             /\ flushes'[k].pc = "upload"
             /\ flushes'[k].i = flushes[k].i + 1]_vars

\* C14. Single scheduled flush: at most one timer is scheduled at any time;
\* every debounced() call leaves its new timer as the only scheduled one (the
\* one before is cancelled first); and a flush is only ever started by the
\* scheduled timer, which is then no longer scheduled: a cancelled timer
\* starts none.
C14_SingleScheduledFlush ==
    /\ [](Len(timers) <= 1)
    /\ [][\A p \in Paths :
            HandleEvent(p, FALSE) => timers' = <<DebounceInterval>>]_vars
    /\ [][Len(flushes') > Len(flushes)
            => timers = <<0>> /\ timers' = <<>>]_vars

\* A debounced() call came while the timer of the call before was scheduled,
\* and one timer is scheduled now.
C14_Witness == chain.calls = 2 /\ timers = <<DebounceInterval>> /\ t = "live"

\* The paths of a snapshot that the size filter accepts, in snapshot order.
Accepted(snapshot) ==
    SelectSeq(snapshot, LAMBDA p : fs[p].size <= BATCH_MAX_SIZE_IN_BYTES)

\* C15. Order preservation through the pipeline: in a flush, the list the size
\* filter returns is the accepted paths of the snapshot in snapshot order, the
\* chunks of the batcher put end to end are that same list, and the chunks
\* are sent from the first on, one after the other, from an unchanged list.
C15_OrderPreservation ==
    /\ [](\A k \in Running :
            /\ flushes[k].pc = "group"
               => flushes[k].filepaths = Accepted(flushes[k].snapshot)
            /\ flushes[k].pc = "upload"
               => Flatten(flushes[k].chunks) = Accepted(flushes[k].snapshot))
    /\ [][\A k \in 1..MaxFlushes :
            (FlushGroup(k) /\ Len(flushes') = Len(flushes))
            => flushes'[k].i = 1]_vars
    /\ [][\A k \in 1..MaxFlushes :
            (Sends(k) /\ Len(flushes') = Len(flushes) /\ flushes'[k].pc = "upload")
            => /\ flushes'[k].i = flushes[k].i + 1
               /\ flushes'[k].chunks = flushes[k].chunks]_vars

\* A flush whose snapshot of three paths lost one to the size filter is
\* sending the second of its two chunks.
C15_Witness ==
    \E k \in Running :
       /\ flushes[k].pc = "upload"
       /\ flushes[k].i = 2
       /\ Len(flushes[k].snapshot) = 3
       /\ Len(flushes[k].chunks) = 2
       /\ Len(Flatten(flushes[k].chunks)) = 2

\* Path p is in the snapshot of no flush that runs in the flushes fl.
Unsnapshotted(p, fl) == \A k \in 1..Len(fl) : ~Contains(fl[k].snapshot, p)

\* C16. An add racing a flush is not lost: an event that queues a path while
\* a flush runs arms a timer; a queued path that is in no running snapshot
\* while a timer is scheduled stays queued, with a timer scheduled, until a
\* flush takes a snapshot that holds it; and a flush removes from the queue
\* only paths of its own snapshot. (Only a step that changes the queue or
\* takes the last timer away can break any of this.)
C16_RacingAddNotLost ==
    [][(upload_queue' # upload_queue \/ (timers # <<>> /\ timers' = <<>>)) =>
       \A p \in Paths :
         /\ (/\ flushes # <<>>
             /\ ~Contains(upload_queue, p)
             /\ Contains(upload_queue', p)
             /\ HandleEvent(p, FALSE))
            => timers' # <<>>
         /\ (timers # <<>> /\ Contains(upload_queue, p) /\ Unsnapshotted(p, flushes))
            => /\ Contains(upload_queue', p)
               /\ timers' # <<>> \/ ~Unsnapshotted(p, flushes')
         /\ (Contains(upload_queue, p) /\ ~Contains(upload_queue', p))
            => \E k \in Running :
                  FlushRemove(k) /\ Contains(flushes[k].snapshot, p)]_vars

\* A path queued while a first flush was running, which does not have it in
\* its snapshot, is in the snapshot of a second flush.
C16_Witness ==
    /\ Len(flushes) = 2
    /\ \E p \in Paths :
          /\ ~Contains(flushes[1].snapshot, p)
          /\ Contains(flushes[2].snapshot, p)
          /\ Contains(upload_queue, p)

\* No timer is scheduled and no flush runs.
Idle == timers = <<>> /\ flushes = <<>>

RECURSIVE GreedyPartition(_, _, _, _)
GreedyPartition(filepaths, f, max_sum_size, batches) ==
    IF filepaths = <<>> THEN batches
    ELSE LET p == Head(filepaths)
             n == Len(batches)
         IN  IF n = 0 \/ SumSizes(batches[n], f) + f[p].size > max_sum_size
             THEN GreedyPartition(Tail(filepaths), f, max_sum_size,
                                  Append(batches, <<p>>))
             ELSE GreedyPartition(Tail(filepaths), f, max_sum_size,
                                  [batches EXCEPT ![n] = Append(@, p)])

\* C18. Greedy packing: for a list of at least one path, the chunks the
\* batcher returns are the reference greedy partition of the list; so the
\* first chunk starts with the first path.
C18_GreedyPacking ==
    (main.pc = "upload" /\ main.filepaths # <<>>)
    => main.chunks = GreedyPartition(main.filepaths, fs, BATCH_MAX_SIZE_IN_BYTES, <<>>)

\* C19. No change is lost to dedup: when an event for a queued file was
\* handled after a flush had sent that file, as the one path of its last
\* chunk, the file is still queued after the removal step of that flush, for
\* a later flush to send it.
C19_NoChangeLostToDedup ==
    [][\A k \in 1..MaxFlushes :
          (/\ k \in Running
           /\ flushes[k].pc = "remove"
           /\ flushes[k].changed
           /\ Len(flushes[k].filepaths) = 1
           /\ FlushRemove(k))
          => Contains(upload_queue', flushes[k].filepaths[1])]_vars

\* C20. No empty send: the chunk a flush or the startup pass hands to
\* upload_files always holds at least one path.
C20_NoEmptySend ==
    /\ \A k \in Running : flushes[k].pc = "upload" => Chunk(k) # <<>>
    /\ main.pc = "upload" => main.chunks[main.i] # <<>>

====
